---- MODULE Spec2Model ----
(***************************************************************************)
(* Model of internal/gcsx/temp_file.go: a temporary file (tempFile) that  *)
(* wraps one anonymous os.File and tracks the lowest offset at which it   *)
(* has been modified (dirtyThreshold) and a modification time (mtime).    *)
(*                                                                         *)
(* The os.File behind tf.f is modelled by its content (a sequence of      *)
(* bytes), its seek position, whether its descriptor is open, and whether *)
(* the reference tf.f is nil.  Methods of a nil *os.File return           *)
(* os.ErrInvalid without doing anything.                                  *)
(***************************************************************************)
EXTENDS Integers, Sequences, FiniteSets, TLC

\* ---- bounds of the model ----
MaxSeed == 1      \* longest content handed to NewTempFile
MaxBuf  == 2      \* longest buffer p handed to Read / ReadAt / WriteAt
MaxOff  == 1      \* largest offset / size argument
MaxTime == 1      \* largest clock reading

Byte == {0, 1}
NilTime == -1     \* mtime == nil
Times == 0..MaxTime
Offsets == (-1)..MaxOff          \* int64 arguments, negative ones included
Whences == 0..3                  \* 0 start, 1 current, 2 end, 3 invalid
MaxPos == MaxOff + MaxBuf        \* furthest the cursor is moved

\* NewTempFile is seeded with k bytes of value 1 and WriteAt is handed
\* buffers of bytes of value 0: every byte a write or a zero-fill puts in
\* the file differs from the original byte at that offset.
Seeds == {[i \in 1..k |-> 1] : k \in 0..MaxSeed}
Bufs == {[i \in 1..k |-> 0] : k \in 0..MaxBuf}

VARIABLES
    st,              \* "start": before NewTempFile; "live": a TempFile was
                     \* returned; "failed": NewTempFile returned an error
    createErr,       \* "" | "AnonymousFile" | "copy"
    seed,            \* the bytes NewTempFile copied in (the original content)
    fOpen,           \* the anonymous file's descriptor is open
    fNil,            \* tf.f == nil
    content,         \* bytes of the file
    pos,             \* seek position of the file
    closes,          \* number of times the descriptor was closed
    destroyed,       \* tf.destroyed
    dirtyThreshold,  \* tf.dirtyThreshold
    mtime,           \* tf.mtime (NilTime when nil)
    now,             \* what tf.clock.Now() returns
    op,              \* the last call made
    arg,             \* its offset / size argument (0 when it has none)
    res,             \* its outcome: "ok" | "eof" | "err" | "panic", or
                     \* "running" while the call is in progress
    pc,              \* 0 between calls; inside WriteAt / Truncate, the
                     \* index of the statement group to execute next
    pre,             \* the file's bytes when the call in progress began
    t0               \* the clock's reading when it began

vars == <<st, createErr, seed, fOpen, fNil, content, pos, closes, destroyed,
          dirtyThreshold, mtime, now, op, arg, res, pc, pre, t0>>

fileVars == <<fOpen, fNil, content, pos, closes>>
metaVars == <<destroyed, dirtyThreshold, mtime>>
createVars == <<st, createErr, seed>>
stepVars == <<pc, pre, t0>>

\* ---- helpers ----

minInt64_second(a, b) == b

minInt64(a, b) == IF a < b THEN a ELSE b

Size == Len(content)

Zeros(n) == [i \in 1..n |-> 0]

Prefix(s, n) == SubSeq(s, 1, n)

\* os.File.WriteAt of the first k bytes of p at offset off >= 0 (k >= 1):
\* a gap between the old end and off reads as zero bytes.
FileWrite(c, p, off, k) ==
    LET newLen == IF off + k > Len(c) THEN off + k ELSE Len(c)
    IN [i \in 1..newLen |->
            IF i > off /\ i <= off + k THEN p[i - off]
            ELSE IF i <= Len(c) THEN c[i]
            ELSE 0]

\* os.File.Truncate(n), n >= 0: cut, or extend with zero bytes.
FileTruncate(c, n) ==
    IF n <= Len(c) THEN Prefix(c, n) ELSE c \o Zeros(n - Len(c))

\* What Stat returns when the size query succeeds.
StatResult ==
    [Size |-> Size, DirtyThreshold |-> dirtyThreshold, Mtime |-> mtime]

\* The bytes a Read(p) with len(p) = n would return now.
ReadBytes(n) ==
    IF pos >= Size THEN <<>>
    ELSE SubSeq(content, pos + 1, minInt64(pos + n, Size))

Init ==
    /\ st = "start"
    /\ createErr = ""
    /\ seed = <<>>
    /\ fOpen = FALSE
    /\ fNil = TRUE
    /\ content = <<>>
    /\ pos = 0
    /\ closes = 0
    /\ destroyed = FALSE
    /\ dirtyThreshold = 0
    /\ mtime = NilTime
    /\ now = 0
    /\ op = "none"
    /\ arg = 0
    /\ res = "ok"
    /\ pc = 0
    /\ pre = <<>>
    /\ t0 = 0

\* ---- NewTempFile ----
\* in: the reader's content; allocOk: fsutil.AnonymousFile succeeds;
\* n: bytes io.Copy wrote; copyOk: io.Copy returned no error.
NewTempFile_zeroThreshold(in, allocOk, n, copyOk) ==
    /\ st = "start"
    /\ op' = "NewTempFile"
    /\ arg' = 0
    /\ UNCHANGED stepVars
    /\ UNCHANGED <<closes, destroyed, mtime, now, dirtyThreshold>>
    /\ IF ~allocOk
       THEN /\ st' = "failed"
            /\ createErr' = "AnonymousFile"
            /\ res' = "err"
            /\ UNCHANGED <<seed, fOpen, fNil, content, pos>>
       ELSE /\ fOpen' = TRUE
            /\ content' = Prefix(in, n)
            /\ pos' = n
            /\ IF ~copyOk
               THEN /\ st' = "failed"
                    /\ createErr' = "copy"
                    /\ res' = "err"
                    /\ UNCHANGED <<seed, fNil>>
               ELSE /\ n = Len(in)
                    /\ st' = "live"
                    /\ createErr' = ""
                    /\ res' = "ok"
                    /\ seed' = in
                    /\ fNil' = FALSE

NewTempFile(in, allocOk, n, copyOk) ==
    /\ st = "start"
    /\ op' = "NewTempFile"
    /\ arg' = 0
    /\ UNCHANGED stepVars
    /\ UNCHANGED <<closes, destroyed, mtime, now>>
    /\ IF ~allocOk
       THEN /\ st' = "failed"
            /\ createErr' = "AnonymousFile"
            /\ res' = "err"
            /\ UNCHANGED <<seed, fOpen, fNil, content, pos, dirtyThreshold>>
       ELSE /\ fOpen' = TRUE
            /\ content' = Prefix(in, n)
            /\ pos' = n
            /\ IF ~copyOk
               THEN /\ st' = "failed"
                    /\ createErr' = "copy"
                    /\ res' = "err"
                    /\ UNCHANGED <<seed, fNil, dirtyThreshold>>
               ELSE /\ n = Len(in)
                    /\ st' = "live"
                    /\ createErr' = ""
                    /\ res' = "ok"
                    /\ seed' = in
                    /\ fNil' = FALSE
                    /\ dirtyThreshold' = n

\* ---- Read ----
\* n = len(p); ioOk: the read system call does not fail.
Read(n, ioOk) ==
    /\ st = "live"
    /\ op' = "Read"
    /\ arg' = 0
    /\ UNCHANGED stepVars
    /\ UNCHANGED <<createVars, metaVars, now, fOpen, fNil, content, closes>>
    /\ IF fNil \/ ~ioOk
       THEN /\ res' = "err"
            /\ pos' = pos
       ELSE /\ pos' = pos + Len(ReadBytes(n))
            /\ res' = IF n > 0 /\ ReadBytes(n) = <<>> THEN "eof" ELSE "ok"

\* ---- Seek ----
SeekTarget(offset, whence) ==
    CASE whence = 0 -> offset
      [] whence = 1 -> pos + offset
      [] whence = 2 -> Size + offset
      [] OTHER -> -1

Seek(offset, whence) ==
    /\ st = "live"
    /\ SeekTarget(offset, whence) <= MaxPos
    /\ op' = "Seek"
    /\ arg' = 0
    /\ UNCHANGED stepVars
    /\ UNCHANGED <<createVars, metaVars, now, fOpen, fNil, content, closes>>
    /\ IF fNil \/ whence \notin 0..2 \/ SeekTarget(offset, whence) < 0
       THEN /\ res' = "err"
            /\ pos' = pos
       ELSE /\ res' = "ok"
            /\ pos' = SeekTarget(offset, whence)

\* ---- ReadAt ----
ReadAt(n, offset, ioOk) ==
    /\ st = "live"
    /\ op' = "ReadAt"
    /\ arg' = 0
    /\ UNCHANGED stepVars
    /\ UNCHANGED <<createVars, metaVars, now, fileVars>>
    /\ res' = IF fNil \/ offset < 0 \/ ~ioOk THEN "err"
              ELSE IF n > 0 /\ offset + n > Size THEN "eof"
              ELSE "ok"

\* ---- Stat ----
Stat_restoring ==
    /\ st = "live"
    /\ op' = "Stat"
    /\ arg' = 0
    /\ UNCHANGED stepVars
    /\ UNCHANGED <<createVars, metaVars, now, fileVars>>
    /\ res' = IF fNil THEN "err" ELSE "ok"

Stat_touching ==
    /\ st = "live"
    /\ op' = "Stat"
    /\ arg' = 0
    /\ UNCHANGED stepVars
    /\ UNCHANGED <<createVars, destroyed, dirtyThreshold, now, fOpen, fNil,
                   content, closes>>
    /\ IF fNil
       THEN /\ res' = "err"
            /\ UNCHANGED <<pos, mtime>>
       ELSE /\ res' = "ok"
            /\ pos' = Size
            /\ mtime' = now

Stat ==
    /\ st = "live"
    /\ op' = "Stat"
    /\ arg' = 0
    /\ UNCHANGED stepVars
    /\ UNCHANGED <<createVars, metaVars, now, fOpen, fNil, content, closes>>
    /\ IF fNil
       THEN /\ res' = "err"
            /\ pos' = pos
       ELSE /\ res' = "ok"
            /\ pos' = Size

\* ---- WriteAt ----
\* k: the number of bytes of p the file accepted; k < Len(p) is a failed
\* (short) write.
WriteAtFile(p, offset, k) ==
    /\ UNCHANGED <<fOpen, fNil, pos, closes>>
    /\ IF fNil \/ offset < 0
       THEN /\ res' = "err"
            /\ content' = content
       ELSE /\ res' = IF k = Len(p) THEN "ok" ELSE "err"
            /\ content' = IF k = 0 THEN content
                          ELSE FileWrite(content, p, offset, k)

WriteAt_noMtime(p, offset, k) ==
    /\ st = "live"
    /\ op' = "WriteAt"
    /\ arg' = offset
    /\ UNCHANGED stepVars
    /\ UNCHANGED <<createVars, destroyed, now, mtime>>
    /\ dirtyThreshold' = minInt64(dirtyThreshold, offset)
    /\ WriteAtFile(p, offset, k)

WriteAt_onlyIfWritten(p, offset, k) ==
    /\ st = "live"
    /\ op' = "WriteAt"
    /\ arg' = offset
    /\ UNCHANGED stepVars
    /\ UNCHANGED <<createVars, destroyed, now>>
    /\ IF ~(fNil \/ offset < 0) /\ k > 0
       THEN /\ dirtyThreshold' = minInt64(dirtyThreshold, offset)
            /\ mtime' = now
       ELSE UNCHANGED <<dirtyThreshold, mtime>>
    /\ WriteAtFile(p, offset, k)

WriteAt(p, offset, k) ==
    /\ st = "live"
    /\ op' = "WriteAt"
    /\ arg' = offset
    /\ UNCHANGED stepVars
    /\ UNCHANGED <<createVars, destroyed, now>>
    /\ dirtyThreshold' = minInt64(dirtyThreshold, offset)
    /\ mtime' = now
    /\ WriteAtFile(p, offset, k)

\* ---- Truncate ----
\* ioOk: the file accepts the truncation.
TruncateFile(n, ioOk) ==
    /\ UNCHANGED <<fOpen, fNil, pos, closes>>
    /\ IF fNil \/ n < 0 \/ ~ioOk
       THEN /\ res' = "err"
            /\ content' = content
       ELSE /\ res' = "ok"
            /\ content' = FileTruncate(content, n)

Truncate_noMtime(n, ioOk) ==
    /\ st = "live"
    /\ op' = "Truncate"
    /\ arg' = n
    /\ UNCHANGED stepVars
    /\ UNCHANGED <<createVars, destroyed, now, mtime>>
    /\ dirtyThreshold' = minInt64(dirtyThreshold, n)
    /\ TruncateFile(n, ioOk)

Truncate(n, ioOk) ==
    /\ st = "live"
    /\ op' = "Truncate"
    /\ arg' = n
    /\ UNCHANGED stepVars
    /\ UNCHANGED <<createVars, destroyed, now>>
    /\ dirtyThreshold' = minInt64(dirtyThreshold, n)
    /\ mtime' = now
    /\ TruncateFile(n, ioOk)

\* ---- SetMtime ----
SetMtime_onlyIfNil(t) ==
    /\ st = "live"
    /\ op' = "SetMtime"
    /\ arg' = t
    /\ UNCHANGED stepVars
    /\ res' = "ok"
    /\ mtime' = IF mtime = NilTime THEN t ELSE mtime
    /\ UNCHANGED <<createVars, destroyed, dirtyThreshold, now, fileVars>>

SetMtime(t) ==
    /\ st = "live"
    /\ op' = "SetMtime"
    /\ arg' = t
    /\ UNCHANGED stepVars
    /\ res' = "ok"
    /\ mtime' = t
    /\ UNCHANGED <<createVars, destroyed, dirtyThreshold, now, fileVars>>

\* ---- CheckInvariants ----
\* On a live object: Seek(0, 1) returns the cursor, which is saved; Stat
\* moves the cursor to the end; the two invariants are tested; the deferred
\* Seek(saved, 0) puts the cursor back (also when a test panics).  On a
\* destroyed object the panic comes before anything else.
CheckInvariants_noRestore ==
    /\ st = "live"
    /\ op' = "CheckInvariants"
    /\ arg' = 0
    /\ UNCHANGED stepVars
    /\ UNCHANGED <<createVars, metaVars, now, fOpen, fNil, content, closes>>
    /\ IF destroyed \/ fNil
       THEN /\ res' = "panic"
            /\ pos' = pos
       ELSE /\ pos' = StatResult.Size
            /\ res' = IF ~(StatResult.DirtyThreshold <= StatResult.Size)
                      THEN "panic"
                      ELSE IF mtime = NilTime
                              /\ StatResult.DirtyThreshold # StatResult.Size
                      THEN "panic"
                      ELSE "ok"

CheckInvariants ==
    /\ st = "live"
    /\ op' = "CheckInvariants"
    /\ arg' = 0
    /\ UNCHANGED stepVars
    /\ UNCHANGED <<createVars, metaVars, now, fOpen, fNil, content, closes>>
    /\ IF destroyed \/ fNil
       THEN /\ res' = "panic"
            /\ pos' = pos
       ELSE LET saved == SeekTarget(0, 1)
            IN /\ pos' = saved
               /\ res' = IF ~(StatResult.DirtyThreshold <= StatResult.Size)
                         THEN "panic"
                         ELSE IF mtime = NilTime
                                 /\ StatResult.DirtyThreshold # StatResult.Size
                         THEN "panic"
                         ELSE "ok"

\* ---- Destroy ----
\* Closing the anonymous file throws its bytes away.  On a second call
\* tf.f is nil and Close returns os.ErrInvalid, which is ignored.
Destroy_noClose ==
    /\ st = "live"
    /\ op' = "Destroy"
    /\ arg' = 0
    /\ UNCHANGED stepVars
    /\ res' = "ok"
    /\ destroyed' = TRUE
    /\ fNil' = TRUE
    /\ UNCHANGED <<fOpen, content, pos, closes>>
    /\ UNCHANGED <<createVars, dirtyThreshold, mtime, now>>

Destroy ==
    /\ st = "live"
    /\ op' = "Destroy"
    /\ arg' = 0
    /\ UNCHANGED stepVars
    /\ res' = "ok"
    /\ destroyed' = TRUE
    /\ fNil' = TRUE
    /\ IF fNil
       THEN UNCHANGED <<fOpen, content, pos, closes>>
       ELSE /\ fOpen' = FALSE
            /\ content' = <<>>
            /\ pos' = 0
            /\ closes' = closes + 1
    /\ UNCHANGED <<createVars, dirtyThreshold, mtime, now>>

\* ---- the clock collaborator ----
Tick ==
    /\ now < MaxTime
    /\ now' = now + 1
    /\ UNCHANGED <<createVars, fileVars, metaVars, op, arg, res, stepVars>>

Next ==
    \/ \E in \in Seeds, allocOk \in BOOLEAN, copyOk \in BOOLEAN :
         \E n \in 0..Len(in) : NewTempFile(in, allocOk, n, copyOk)
    \/ \E n \in 0..MaxBuf, ioOk \in BOOLEAN : Read(n, ioOk)
    \/ \E offset \in Offsets, whence \in Whences : Seek(offset, whence)
    \/ \E n \in 0..MaxBuf, offset \in Offsets, ioOk \in BOOLEAN :
         ReadAt(n, offset, ioOk)
    \/ Stat
    \/ \E p \in Bufs, offset \in Offsets : \E k \in 0..Len(p) :
         WriteAt(p, offset, k)
    \/ \E n \in Offsets, ioOk \in BOOLEAN : Truncate(n, ioOk)
    \/ \E t \in Times : SetMtime(t)
    \/ CheckInvariants
    \/ Destroy
    \/ Tick

Spec == Init /\ [][Next]_vars

\* ---------------------------------------------------------------------
\* WriteAt and Truncate statement by statement
\* ---------------------------------------------------------------------
\* Both methods consist of two groups of statements: "state" (update
\* dirtyThreshold, read the clock, set mtime) and "file" (call through to
\* the file and return its result).  The calls below execute them one
\* group per step, in the order the source has them, so that the states
\* between the groups exist.  The object is not safe for concurrent use:
\* no other call, and no advance of the clock, falls inside a call.

MutationOrder_fileFirst == <<"file", "state">>

MutationOrder == <<"state", "file">>

NextPc == IF pc = Len(MutationOrder) THEN 0 ELSE pc + 1

EnterCall(name, a) ==
    /\ st = "live"
    /\ pc = 0
    /\ op' = name
    /\ arg' = a
    /\ res' = "running"
    /\ pc' = 1
    /\ pre' = content
    /\ t0' = now
    /\ UNCHANGED <<createVars, metaVars, now, fileVars>>

UpdateDirtyState ==
    /\ dirtyThreshold' = minInt64(dirtyThreshold, arg)
    /\ mtime' = now
    /\ UNCHANGED <<fileVars, res>>

WriteAtEnter(offset) == EnterCall("WriteAt", offset)

WriteAtStatement(p, k) ==
    /\ pc > 0
    /\ op = "WriteAt"
    /\ pc' = NextPc
    /\ UNCHANGED <<createVars, destroyed, now, op, arg, pre, t0>>
    /\ IF MutationOrder[pc] = "state"
       THEN UpdateDirtyState
       ELSE /\ WriteAtFile(p, arg, k)
            /\ UNCHANGED <<dirtyThreshold, mtime>>

TruncateEnter(n) == EnterCall("Truncate", n)

TruncateStatement(ioOk) ==
    /\ pc > 0
    /\ op = "Truncate"
    /\ pc' = NextPc
    /\ UNCHANGED <<createVars, destroyed, now, op, arg, pre, t0>>
    /\ IF MutationOrder[pc] = "state"
       THEN UpdateDirtyState
       ELSE /\ TruncateFile(arg, ioOk)
            /\ UNCHANGED <<dirtyThreshold, mtime>>

BetweenSetMtime(t) == pc = 0 /\ SetMtime(t)

BetweenDestroy == pc = 0 /\ Destroy

BetweenTick == pc = 0 /\ Tick

NextSteps ==
    \/ \E in \in Seeds, allocOk \in BOOLEAN, copyOk \in BOOLEAN :
         \E n \in 0..Len(in) : NewTempFile(in, allocOk, n, copyOk)
    \/ \E offset \in Offsets : WriteAtEnter(offset)
    \/ \E p \in Bufs : \E k \in 0..Len(p) : WriteAtStatement(p, k)
    \/ \E n \in Offsets : TruncateEnter(n)
    \/ \E ioOk \in BOOLEAN : TruncateStatement(ioOk)
    \/ \E t \in Times : BetweenSetMtime(t)
    \/ BetweenDestroy
    \/ BetweenTick

SpecSteps == Init /\ [][NextSteps]_vars

\* ---------------------------------------------------------------------
\* Properties
\* ---------------------------------------------------------------------

Live == st = "live" /\ ~destroyed

\* A step that is a call of one of the operations in ops (the clock does
\* not move during a call).
IsCall(ops) == now' = now /\ op' \in ops

\* C1: after every call on a buffer that has not been destroyed, failed
\* writes and truncates included, the dirtyThreshold Stat reports is at
\* most the size Stat reports.
C1_ThresholdBound ==
    Live => StatResult.DirtyThreshold <= StatResult.Size

\* A Truncate the file rejected has lowered the threshold below the size.
C1_Witness ==
    /\ Live
    /\ op = "Truncate"
    /\ res = "err"
    /\ arg >= 0
    /\ dirtyThreshold = arg
    /\ dirtyThreshold < Size

\* C2: while the file exists, its bytes at offsets [0, dirtyThreshold) are
\* the bytes the original content has at the same offsets.
C2_PrefixUnmodified ==
    Live => \A i \in 1..dirtyThreshold :
                /\ i <= Len(content)
                /\ i <= Len(seed)
                /\ content[i] = seed[i]

\* A Truncate has grown the content back over a range it had cut off: the
\* regrown byte differs from the original one and lies above the threshold.
C2_Witness ==
    /\ Live
    /\ op = "Truncate"
    /\ res = "ok"
    /\ Size > 0
    /\ Size <= Len(seed)
    /\ content[Size] # seed[Size]
    /\ dirtyThreshold < Size

\* C3: in every state Stat can observe, a nil mtime implies that
\* dirtyThreshold equals the size.
C3_CleanImpliesEqual ==
    (Live /\ mtime = NilTime) => dirtyThreshold = Size

\* Reads and a Stat on a non-empty, never modified buffer.
C3_Witness ==
    /\ Live
    /\ op = "Stat"
    /\ res = "ok"
    /\ mtime = NilTime
    /\ Size > 0
    /\ dirtyThreshold = Size

\* C4 (as claimed): Stat leaves the cursor where it was.
C4_StatPreservesCursor ==
    [][IsCall({"Stat"}) => pos' = pos]_vars

\* C4 (amended): a successful Stat leaves the cursor at the end of the
\* content, so that a Read right after it returns no bytes.
C4_StatLeavesCursorAtEnd ==
    (Live /\ op = "Stat" /\ res = "ok") =>
        /\ pos = Size
        /\ \A n \in 0..MaxBuf : ReadBytes(n) = <<>>

C4_Witness ==
    /\ Live
    /\ op = "Stat"
    /\ res = "ok"
    /\ Size > 0
    /\ pos = Size
    /\ mtime # NilTime

\* C5: once Destroy has been called, every call of Read, Seek, ReadAt,
\* WriteAt, Truncate, Stat, SetMtime or CheckInvariants is rejected (error
\* or panic) and leaves dirtyThreshold and mtime alone.
C5_UseAfterDestroyRejected ==
    [][(destroyed /\ IsCall({"Read", "Seek", "ReadAt", "WriteAt", "Truncate",
                             "Stat", "SetMtime", "CheckInvariants"}))
        => /\ res' \in {"err", "panic"}
           /\ dirtyThreshold' = dirtyThreshold
           /\ mtime' = mtime]_vars

\* C6: when NewTempFile returns an error, no backing file is left open.
C6_FailedCreateReleasesStore ==
    st = "failed" => ~fOpen

\* C7: dirtyThreshold is never negative.
C7_ThresholdNonNegative ==
    st = "live" => dirtyThreshold >= 0

\* C8: once the buffer exists, no step raises dirtyThreshold.
C8_ThresholdNeverIncreases ==
    [][st = "live" => dirtyThreshold' <= dirtyThreshold]_vars

\* A Truncate has grown the content to a size above the threshold, and a
\* WriteAt has written at an offset above it.
C8_Witness ==
    /\ Live
    /\ op \in {"Truncate", "WriteAt"}
    /\ res = "ok"
    /\ arg > dirtyThreshold
    /\ Size >= arg
    /\ dirtyThreshold >= 0

\* C9: a call of Read, Seek, ReadAt or Stat, failed or not, changes neither
\* dirtyThreshold nor mtime.
C9_ReadsDoNotMutate ==
    [][IsCall({"Read", "Seek", "ReadAt", "Stat"})
        => dirtyThreshold' = dirtyThreshold /\ mtime' = mtime]_vars

\* A failed ReadAt on a modified buffer.
C9_Witness ==
    /\ Live
    /\ op = "ReadAt"
    /\ res = "err"
    /\ mtime # NilTime
    /\ dirtyThreshold < Size

\* C10: a WriteAt at offset o on a live buffer leaves dirtyThreshold at the
\* smaller of its old value and o, and mtime at the clock's reading.
C10_WriteAtEffect ==
    [][(~destroyed /\ IsCall({"WriteAt"}))
        => /\ dirtyThreshold' =
                (IF arg' < dirtyThreshold THEN arg' ELSE dirtyThreshold)
           /\ mtime' = now]_vars

\* A later write above the threshold: the threshold stays, mtime advances.
C10_Witness ==
    /\ Live
    /\ op = "WriteAt"
    /\ res = "ok"
    /\ arg > dirtyThreshold
    /\ dirtyThreshold >= 0
    /\ mtime = now
    /\ now > 0

\* C11: a successful Truncate(n) on a live buffer leaves the size at n,
\* dirtyThreshold at the smaller of its old value and n (so unchanged when
\* n is at or above it, growth with zero bytes included), and mtime at the
\* clock's reading.
C11_TruncateEffect ==
    [][(~destroyed /\ IsCall({"Truncate"}) /\ res' = "ok")
        => /\ Len(content') = arg'
           /\ dirtyThreshold' =
                (IF arg' < dirtyThreshold THEN arg' ELSE dirtyThreshold)
           /\ (arg' >= dirtyThreshold => dirtyThreshold' = dirtyThreshold)
           /\ mtime' = now]_vars

\* A Truncate has grown the content beyond the original length with zero
\* bytes; the threshold stayed below the new size.
C11_Witness ==
    /\ Live
    /\ op = "Truncate"
    /\ res = "ok"
    /\ Size = arg
    /\ Size > Len(seed)
    /\ content[Size] = 0
    /\ dirtyThreshold = Len(seed)

\* C12: SetMtime(t) sets mtime to t and changes nothing else; afterwards
\* Read, Seek, ReadAt and Stat keep the mtime, and WriteAt and Truncate
\* replace it with the clock's reading.
C12_SetMtimeOnlyMtime ==
    [][/\ IsCall({"SetMtime"})
          => /\ mtime' = arg'
             /\ UNCHANGED <<dirtyThreshold, content, pos, destroyed, fOpen,
                            fNil, closes, seed, st>>
       /\ IsCall({"Read", "Seek", "ReadAt", "Stat"}) => mtime' = mtime
       /\ IsCall({"WriteAt", "Truncate"}) => mtime' = now]_vars

\* An mtime ahead of the clock can only come from SetMtime; it is still
\* reported after a Stat.
C12_Witness ==
    /\ Live
    /\ op = "Stat"
    /\ res = "ok"
    /\ mtime > now
    /\ dirtyThreshold < Size

\* C13: right after a successful NewTempFile from N bytes, the size and
\* dirtyThreshold are N, the content is those bytes, and mtime is nil.
C13_CreatePostcondition ==
    (op = "NewTempFile" /\ res = "ok") =>
        /\ st = "live"
        /\ StatResult.Size = Len(seed)
        /\ StatResult.DirtyThreshold = Len(seed)
        /\ StatResult.Mtime = NilTime
        /\ content = seed

C13_Witness ==
    /\ op = "NewTempFile"
    /\ res = "ok"
    /\ Size = MaxSeed
    /\ dirtyThreshold = MaxSeed

\* C15: CheckInvariants on a live buffer changes nothing a caller can
\* observe (cursor, dirtyThreshold, mtime, size, content) and does not
\* panic.
C15_CheckInvariantsNeutral ==
    [][(~destroyed /\ IsCall({"CheckInvariants"}))
        => /\ res' = "ok"
           /\ pos' = pos
           /\ content' = content
           /\ dirtyThreshold' = dirtyThreshold
           /\ mtime' = mtime
           /\ UNCHANGED <<destroyed, fOpen, fNil, closes>>]_vars

\* CheckInvariants has run with the cursor away from the end, on a buffer
\* a write has made dirty.
C15_Witness ==
    /\ Live
    /\ op = "CheckInvariants"
    /\ res = "ok"
    /\ pos < Size
    /\ dirtyThreshold < Size

\* C16: mtime is nil exactly until the first WriteAt, Truncate or SetMtime:
\* each of them leaves it set, every other call leaves a nil mtime nil,
\* and no step resets a set mtime to nil.
C16_MtimePresence ==
    [][/\ mtime # NilTime => mtime' # NilTime
       /\ IsCall({"WriteAt", "Truncate", "SetMtime"}) => mtime' # NilTime
       /\ (mtime = NilTime
           /\ IsCall({"Read", "Seek", "ReadAt", "Stat", "CheckInvariants",
                      "Destroy"}))
          => mtime' = NilTime]_vars

\* The buffer was modified by a failed Truncate; calls that do not modify
\* it followed, and mtime is still set.
C16_Witness ==
    /\ Live
    /\ op = "Seek"
    /\ mtime # NilTime
    /\ content = seed
    /\ dirtyThreshold < Size

\* C17: destroyed never goes back to false; whenever it is true the file
\* is closed; and the file is never closed more than once.
C17_DestroyOneWay ==
    [][/\ destroyed => destroyed'
       /\ destroyed' => (~fOpen' /\ closes' = 1)
       /\ closes' <= 1]_vars

\* A call has followed the Destroy: the flag is still set and the file
\* was closed once.
C17_Witness ==
    /\ st = "live"
    /\ destroyed
    /\ op = "WriteAt"
    /\ res = "err"
    /\ closes = 1
    /\ ~fOpen

\* C18: a WriteAt on a live buffer that changes no byte, at an offset below
\* dirtyThreshold, still lowers dirtyThreshold to the offset and sets
\* mtime.
C18_NoOpWriteLowersThreshold ==
    [][(~destroyed /\ IsCall({"WriteAt"}) /\ content' = content
        /\ arg' < dirtyThreshold)
        => /\ dirtyThreshold' = arg'
           /\ dirtyThreshold' < dirtyThreshold
           /\ mtime' = now]_vars

\* The content is byte for byte the original, yet the threshold is below
\* its length: dirtyThreshold is not the largest T with [0, T) unmodified.
C18_Witness ==
    /\ Live
    /\ op = "WriteAt"
    /\ arg >= 0
    /\ content = seed
    /\ dirtyThreshold = arg
    /\ dirtyThreshold < Size
    /\ mtime # NilTime

\* C14: in every state during or after a WriteAt or Truncate on a live
\* buffer, every offset whose byte the call has changed (written, cut off
\* or zero-filled) is at or above dirtyThreshold, with mtime already the
\* call's clock reading; and a call the file has failed leaves the
\* threshold lowered to at most its argument and mtime at that reading.
ChangedAt(i) ==
    \/ (i > Len(pre)) # (i > Len(content))
    \/ /\ i <= Len(pre)
       /\ i <= Len(content)
       /\ pre[i] # content[i]

C14_StateBeforeFile ==
    (st = "live" /\ op \in {"WriteAt", "Truncate"}) =>
        /\ \A i \in 1..(Len(pre) + Len(content)) :
              ChangedAt(i) => (dirtyThreshold <= i - 1 /\ mtime = t0)
        /\ (pc = 0 /\ res = "err") => (dirtyThreshold <= arg /\ mtime = t0)

\* A WriteAt has failed after a part of its buffer went into the file.
C14_Witness ==
    /\ Live
    /\ op = "WriteAt"
    /\ pc = 0
    /\ res = "err"
    /\ arg >= 0
    /\ ChangedAt(arg + 1)
    /\ dirtyThreshold = arg
    /\ mtime = t0
    /\ t0 > 0

====
